---- MODULE Spec2Model ----
(***************************************************************************)
(* A model of cartoonize (finalcode.py): the pipeline                      *)
(*   imread -> resize -> 3 x bilateralFilter -> setRNGSeed -> kmeans ->     *)
(*   uint8/palette lookup -> BGR2GRAY -> medianBlur -> adaptiveThreshold -> *)
(*   bitwise_and(mask) -> BGR2RGB -> return                                 *)
(* run by one or two threads, each statement of the function one step.     *)
(*                                                                         *)
(* An image is a sequence of rows, a row a sequence of pixels, a colour    *)
(* pixel the tuple <<b, g, r>> of 8-bit samples, a grey pixel one sample.  *)
(* None (imread's failure, an unbound local) is the empty sequence.        *)
(*                                                                         *)
(* The OpenCV and NumPy routines the function calls are modelled by what   *)
(* they compute on 8-bit images.  Three of them compute in floating point; *)
(* the model computes them in fixed point:                                 *)
(*   - bilateralFilter's Gaussian weights are tables scaled by WeightScale;*)
(*   - kmeans' float32 centres carry CenterScale-ths of a sample, rounded   *)
(*     down, so that truncating or rounding a centre to 8 bits gives what   *)
(*     truncating or rounding the exact mean gives;                         *)
(*   - the default random generator (OpenCV's multiply-with-carry, one per  *)
(*     thread) keeps its structure at a reduced width of 16 bits.           *)
(***************************************************************************)
EXTENDS Integers, Sequences, FiniteSets, TLC

\* ------------------------------------------------------------- arithmetic

Max(a, b) == IF a >= b THEN a ELSE b

Min(a, b) == IF a <= b THEN a ELSE b

Abs(a) == IF a < 0 THEN -a ELSE a

Clamp(i, n) == IF i < 1 THEN 1 ELSE IF i > n THEN n ELSE i

\* cvRound(num / den) for num >= 0, den > 0: to the nearest integer, a half to
\* the even neighbour.
RoundDiv(num, den) ==
    LET q == num \div den
        r == num % den
    IN  IF 2 * r > den THEN q + 1
        ELSE IF 2 * r < den THEN q
        ELSE IF q % 2 = 0 THEN q ELSE q + 1

\* Op applied to the value of e, which is computed once.
With(e, Op(_)) == CHOOSE r \in {Op(v) : v \in {e}} : TRUE

RECURSIVE SumTo(_, _, _)
\* f[lo] + ... + f[hi]
SumTo(f, lo, hi) ==
    IF lo > hi THEN 0
    ELSE IF lo = hi THEN f[lo]
    ELSE LET mid == (lo + hi) \div 2
         IN  SumTo(f, lo, mid) + SumTo(f, mid + 1, hi)

\* ------------------------------------------------------------------ images

NoImage == << >>

Height(im) == Len(im)

Width(im) == Len(im[1])

Shape(im) == IF im = NoImage THEN <<0, 0>> ELSE <<Height(im), Width(im)>>

\* ------------------------------------------------- resize (lines 11 to 14)

\* (int(w*scale), int(h*scale)) with scale = max_dim / float(max(h, w)): the
\* dsize handed to cv2.resize, <<width, height>>.
ResizeDims(h, w, max_dim) ==
    LET m == Max(h, w)
    IN  <<(w * max_dim) \div m, (h * max_dim) \div m>>

\* The length that cell j of n cells and cell x of m cells of one segment share,
\* in units of 1/(n*m) of the segment.
Overlap(j, n, x, m) ==
    Max(0, Min(j * m, x * n) - Max((j - 1) * m, (x - 1) * n))

\* cv2.resize(img, (dw, dh), interpolation=INTER_AREA): every target pixel is
\* the area-weighted mean of the source pixels it covers.
ResizeArea(im, dw, dh) ==
    LET h == Height(im)
        w == Width(im)
        Sample(i, j, c) ==
            LET rowsum == [y \in 1..h |->
                    Overlap(i, dh, y, h) *
                    SumTo([x \in 1..w |-> Overlap(j, dw, x, w) * im[y][x][c]], 1, w)]
            IN  RoundDiv(SumTo(rowsum, 1, h), h * w)
    IN  [i \in 1..dh |-> [j \in 1..dw |-> [c \in 1..3 |-> Sample(i, j, c)]]]

\* ------------------------------------------ bilateralFilter (lines 19 to 21)

BilateralD == 9

SigmaColor == 75

SigmaSpace == 75

SmoothPasses == 3

WeightScale == 10000

\* WeightScale * exp(-i*i / (2 * SigmaColor^2)) for i = 0, 1, ...; 0 past the end.
ColorWeightTable ==
    <<
       10000, 9999, 9996, 9992, 9986, 9978, 9968, 9957, 9943, 9928, 9912, 9893,
       9873, 9851, 9827, 9802, 9775, 9746, 9716, 9684, 9651, 9616, 9579, 9541,
       9501, 9460, 9417, 9373, 9327, 9280, 9231, 9181, 9130, 9077, 9023, 8968,
       8912, 8854, 8795, 8735, 8674, 8612, 8549, 8484, 8419, 8353, 8285, 8217,
       8148, 8078, 8007, 7936, 7863, 7790, 7717, 7642, 7567, 7492, 7415, 7339,
       7261, 7184, 7106, 7027, 6948, 6869, 6790, 6710, 6630, 6549, 6469, 6388,
       6308, 6227, 6146, 6065, 5984, 5904, 5823, 5742, 5662, 5581, 5501, 5421,
       5341, 5261, 5182, 5103, 5024, 4946, 4868, 4790, 4713, 4636, 4559, 4483,
       4408, 4333, 4258, 4184, 4111, 4038, 3966, 3894, 3823, 3753, 3683, 3614,
       3546, 3478, 3411, 3345, 3279, 3214, 3150, 3086, 3024, 2962, 2901, 2840,
       2780, 2721, 2663, 2606, 2549, 2494, 2439, 2384, 2331, 2278, 2226, 2175,
       2125, 2076, 2027, 1979, 1932, 1886, 1840, 1795, 1751, 1708, 1666, 1624,
       1583, 1543, 1504, 1465, 1427, 1390, 1353, 1318, 1283, 1248, 1215, 1182,
       1150, 1118, 1087, 1057, 1027, 998, 970, 943, 916, 889, 863, 838,
       814, 790, 766, 743, 721, 699, 678, 657, 637, 617, 598, 580,
       561, 544, 526, 510, 493, 477, 462, 447, 432, 418, 404, 391,
       377, 365, 352, 340, 329, 318, 307, 296, 286, 276, 266, 257,
       247, 239, 230, 222, 214, 206, 198, 191, 184, 177, 171, 164,
       158, 152, 146, 141, 135, 130, 125, 120, 116, 111, 107, 103,
       98, 95, 91, 87, 84, 80, 77, 74, 71, 68, 65, 62,
       60, 57, 55, 53, 50, 48, 46, 44, 42, 40, 39, 37,
       35, 34, 32, 31, 30, 28, 27, 26, 25, 23, 22, 21,
       20, 19, 19, 18, 17, 16, 15, 15, 14, 13, 13, 12,
       11, 11, 10, 10, 9, 9, 9, 8, 8, 7, 7, 7,
       6, 6, 6, 5, 5, 5, 5, 4, 4, 4, 4, 4,
       3, 3, 3, 3, 3, 3, 2, 2, 2, 2, 2, 2,
       2, 2, 2, 1, 1, 1, 1, 1, 1, 1, 1, 1,
       1, 1, 1, 1, 1, 1, 1, 1, 1, 1 >>

ColorWeight(i) ==
    IF i < Len(ColorWeightTable) THEN ColorWeightTable[i + 1] ELSE 0

\* WeightScale * exp(-r2 / (2 * SigmaSpace^2)) for r2 = 0 .. 16, the squared
\* distances inside the window of radius BilateralD \div 2.
SpaceWeightTable ==
    << 10000, 9999, 9998, 9997, 9996, 9996, 9995, 9994, 9993, 9992, 9991,
       9990, 9989, 9988, 9988, 9987, 9986 >>

\* BORDER_REFLECT_101 (OpenCV's default border): index i of 1..n, mirrored
\* about the first and the last element without repeating them.
Reflect101(i, n) ==
    IF n = 1 THEN 1
    ELSE LET p == 2 * (n - 1)
             m == (i - 1) % p
         IN  IF m >= n THEN p - m + 1 ELSE m + 1

\* The offsets of the circular window, row by row.
BilateralOffsets ==
    LET r  == BilateralD \div 2
        n  == 2 * r + 1
        all == [k \in 1..(n * n) |-> <<((k - 1) \div n) - r, ((k - 1) % n) - r>>]
    IN  SelectSeq(all, LAMBDA o : o[1] * o[1] + o[2] * o[2] <= r * r)

\* One pass of cv2.bilateralFilter(src, d=9, sigmaColor=75, sigmaSpace=75).
BilateralFilter(src) ==
    LET h == Height(src)
        w == Width(src)
        offs == BilateralOffsets
        n == Len(offs)
        At(i, j, o) == src[Reflect101(i + o[1], h)][Reflect101(j + o[2], w)]
        Pixel(i, j) ==
            LET p0 == src[i][j]
                nb == [k \in 1..n |-> At(i, j, offs[k])]
                wt == [k \in 1..n |->
                        (SpaceWeightTable[offs[k][1] * offs[k][1]
                                          + offs[k][2] * offs[k][2] + 1]
                         * ColorWeight(Abs(nb[k][1] - p0[1]) + Abs(nb[k][2] - p0[2])
                                       + Abs(nb[k][3] - p0[3]))) \div WeightScale]
                wsum == SumTo(wt, 1, n)
            IN  [c \in 1..3 |->
                    RoundDiv(SumTo([k \in 1..n |-> wt[k] * nb[k][c]], 1, n), wsum)]
    IN  [i \in 1..h |-> [j \in 1..w |-> Pixel(i, j)]]

RECURSIVE Smooth(_, _)
\* smoothed after `passes` passes over img.
Smooth(im, passes) ==
    IF passes = 0 THEN im ELSE With(Smooth(im, passes - 1), BilateralFilter)

\* ------------------------------------------------ kmeans (lines 25 to 32)

\* Z = smoothed.reshape((-1, 3)): the pixels row by row.
Flatten(im) ==
    LET w == Width(im)
    IN  [k \in 1..(Height(im) * w) |-> im[((k - 1) \div w) + 1][((k - 1) % w) + 1]]

\* criteria = (TERM_CRITERIA_EPS + TERM_CRITERIA_MAX_ITER, 10, 1.0)
MaxIter == 10

Epsilon == 1

\* The trials of one k-means++ step (SPP_TRIALS in OpenCV's kmeans).
PPTrials == 3

CenterScale == 10

Infinity == 2147483647

\* The default random generator: one multiply-with-carry step, the low half of
\* the state times the coefficient plus the high half.
RngBase == 256

RngCoeff == 249

RngNext(s) == (s % RngBase) * RngCoeff + (s \div RngBase)

\* The word the generator yields in state s.
RngWord(s) == s % RngBase

\* The state a fresh generator starts in (RNG(): all ones in the low half).
RngDefault == RngBase * RngBase - 1

\* RNG(seed): the state is the seed, or the default state for seed 0.
SeedState(seed) ==
    LET v == seed % (RngBase * RngBase)
    IN  IF v = 0 THEN RngDefault ELSE v

DistSq(p, q) ==
    (p[1] - q[1]) * (p[1] - q[1]) + (p[2] - q[2]) * (p[2] - q[2])
    + (p[3] - q[3]) * (p[3] - q[3])

\* The squared distance of sample p to centre c (in CenterScale-ths).
DistToCenter(p, c) ==
    DistSq([ch \in 1..3 |-> CenterScale * p[ch]], c)

RECURSIVE PickByMass(_, _, _, _)
\* p = (double)rng * sum0; the first sample at which the running sum of dist
\* reaches p, the last sample if none does. target = word * sum0 and acc is
\* RngBase times the running sum before sample i.
PickByMass(dist, target, i, acc) ==
    IF i >= Len(dist) THEN Len(dist)
    ELSE IF acc + RngBase * dist[i] >= target THEN i
    ELSE PickByMass(dist, target, i + 1, acc + RngBase * dist[i])

RECURSIVE PPBest(_, _, _, _, _, _)
\* The best of the trials j .. PPTrials for the next centre: the candidate that
\* leaves the smallest sum of distances to the nearest chosen centre.
PPBest(data, dist, sum0, s, j, best) ==
    IF j > PPTrials THEN [best EXCEPT !.s = s]
    ELSE LET n  == Len(data)
             s1 == RngNext(s)
             ci == PickByMass(dist, RngWord(s1) * sum0, 1, 0)
             Try(td) ==
                 LET sm == SumTo(td, 1, n)
                 IN  IF sm < best.sum
                     THEN [ci |-> ci, dist |-> td, sum |-> sm, s |-> s1]
                     ELSE best
         IN  With(With([i \in 1..n |-> Min(DistSq(data[i], data[ci]), dist[i])], Try),
                  LAMBDA b : PPBest(data, dist, sum0, s1, j + 1, b))

RECURSIVE PPCenters(_, _, _, _, _, _)
PPCenters(data, K, idx, dist, sum0, s) ==
    IF Len(idx) >= K THEN [idx |-> idx, s |-> s]
    ELSE With(PPBest(data, dist, sum0, s, 1,
                     [ci |-> 0, dist |-> dist, sum |-> Infinity, s |-> s]),
              LAMBDA b : PPCenters(data, K, Append(idx, b.ci), b.dist, b.sum, b.s))

\* generateCentersPP (flags = KMEANS_PP_CENTERS): the first centre is a sample
\* drawn uniformly, each further one is drawn with probability proportional to
\* the squared distance to the nearest centre chosen so far.
GenerateCentersPP(data, K, s) ==
    LET n    == Len(data)
        s1   == RngNext(s)
        c0   == (RngWord(s1) % n) + 1
        Seeded(pp) ==
            [center |-> [k \in 1..K |-> [ch \in 1..3 |-> CenterScale * data[pp.idx[k]][ch]]],
             s |-> pp.s]
    IN  With(With([i \in 1..n |-> DistSq(data[i], data[c0])],
                  LAMBDA dist : PPCenters(data, K, <<c0>>, dist, SumTo(dist, 1, n), s1)),
             Seeded)

\* The label of the centre nearest to sample p, the lowest label among equals.
Nearest(p, centers) ==
    LET K == Len(centers)
        d == [k \in 1..K |-> DistToCenter(p, centers[k])]
    IN  (CHOOSE k \in 1..K :
            \A j \in 1..K : d[k] < d[j] \/ (d[k] = d[j] /\ k <= j)) - 1

AssignLabels(data, centers) ==
    [i \in 1..Len(data) |-> Nearest(data[i], centers)]

Members(labels, k) == {i \in 1..Len(labels) : labels[i] = k}

\* The mean of the samples labelled k, rounded down to CenterScale-ths.
MeanOf(data, labels, k) ==
    LET cnt == Cardinality(Members(labels, k))
    IN  [ch \in 1..3 |->
            (CenterScale
             * SumTo([i \in 1..Len(data) |-> IF labels[i] = k THEN data[i][ch] ELSE 0],
                     1, Len(data))) \div cnt]

RECURSIVE FixEmpty(_, _, _, _)
\* A cluster k .. K-1 left without samples takes, from the first largest
\* cluster, the sample farthest from that cluster's mean.
FixEmpty(data, labels, k, K) ==
    IF k >= K THEN labels
    ELSE IF Members(labels, k) # {} THEN FixEmpty(data, labels, k + 1, K)
    ELSE LET cnt(c) == Cardinality(Members(labels, c))
             max_k == CHOOSE c \in 0..(K - 1) :
                         \A e \in 0..(K - 1) :
                             cnt(c) > cnt(e) \/ (cnt(c) = cnt(e) /\ c <= e)
             base == MeanOf(data, labels, max_k)
             d(i) == DistToCenter(data[i], base)
             far == CHOOSE i \in Members(labels, max_k) :
                         \A j \in Members(labels, max_k) :
                             d(i) > d(j) \/ (d(i) = d(j) /\ i >= j)
         IN  With([labels EXCEPT ![far] = k], LAMBDA l : FixEmpty(data, l, k + 1, K))

RECURSIVE MaxOver(_, _, _)
MaxOver(f, lo, hi) == IF lo > hi THEN 0 ELSE Max(f[lo], MaxOver(f, lo + 1, hi))

RECURSIVE Lloyd(_, _, _, _, _, _)
\* The iterations after the first: labels were assigned against the centres
\* old; recompute the centres, stop on the iteration count or when no centre
\* moved by more than epsilon, else assign again.
Lloyd(data, K, old, labels, iter, maxCount) ==
    LET n == Len(data)
        Moved(fixed, center) ==
            LET shift == MaxOver([k \in 1..K |-> DistSq(center[k], old[k])], 1, K)
            IN  IF iter + 1 = maxCount \/ shift <= Epsilon * CenterScale * CenterScale
                THEN [compactness |->
                          SumTo([i \in 1..n |->
                                    DistToCenter(data[i], center[fixed[i] + 1])], 1, n),
                      label |-> fixed, center |-> center]
                ELSE With(AssignLabels(data, center),
                          LAMBDA l : Lloyd(data, K, center, l, iter + 1, maxCount))
        Recompute(fixed) ==
            With([k \in 1..K |-> MeanOf(data, fixed, k - 1)],
                 LAMBDA center : Moved(fixed, center))
    IN  With(FixEmpty(data, labels, 0, K), Recompute)

RECURSIVE Attempts(_, _, _, _, _, _)
\* The attempts a .. attempts, each from fresh k-means++ centres; the first one
\* of least compactness is kept.
Attempts(data, K, attempts, maxCount, a, best) ==
    IF a > attempts THEN best
    ELSE LET Run(pp) ==
                 With(With(AssignLabels(data, pp.center),
                           LAMBDA l : Lloyd(data, K, pp.center, l, 1, maxCount)),
                      LAMBDA run :
                          IF run.compactness < best.compactness
                          THEN [compactness |-> run.compactness, label |-> run.label,
                                center |-> run.center, s |-> pp.s]
                          ELSE [best EXCEPT !.s = pp.s])
         IN  With(With(GenerateCentersPP(data, K, best.s), Run),
                  LAMBDA b : Attempts(data, K, attempts, maxCount, a + 1, b))

\* CV_Assert(K > 0); CV_Assert(N >= K)
KMeansAccepts(data, K) == K > 0 /\ Len(data) >= K

\* KMeans with the labels counted from 1.
KMeansOneBased(data, K, attempts, s) ==
    With(With(data,
              LAMBDA Z :
                  Attempts(Z, K, IF K = 1 THEN 1 ELSE Max(attempts, 1),
                           IF K = 1 THEN 2 ELSE MaxIter, 1,
                           [compactness |-> Infinity, label |-> << >>,
                            center |-> << >>, s |-> s])),
         LAMBDA km : [km EXCEPT !.label = [i \in 1..Len(@) |-> @[i] + 1]])

\* cv2.kmeans(Z, K, None, criteria, attempts, KMEANS_PP_CENTERS) with the default
\* generator in state s, for K the quantizer accepts: the compactness, the
\* labels (0 .. K-1), the centres, and the generator's state afterwards.
KMeans(data, K, attempts, s) ==
    With(data,
         LAMBDA Z :
             Attempts(Z, K, IF K = 1 THEN 1 ELSE Max(attempts, 1),
                      IF K = 1 THEN 2 ELSE MaxIter, 1,
                      [compactness |-> Infinity, label |-> << >>, center |-> << >>,
                       s |-> s]))

\* ------------------------------------- palette lookup (lines 34 and 35)

\* Uint8 rounding to the nearest sample.
Uint8Rounded(center) ==
    [k \in 1..Len(center) |->
        [ch \in 1..3 |-> ((center[k][ch] + CenterScale \div 2) \div CenterScale) % 256]]

\* np.uint8(center): a float32 becomes an 8-bit sample by dropping its fraction.
Uint8(center) ==
    [k \in 1..Len(center) |-> [ch \in 1..3 |-> (center[k][ch] \div CenterScale) % 256]]

\* center[label.flatten()].reshape(img.shape)
Lookup(center8, label, h, w) ==
    [i \in 1..h |-> [j \in 1..w |-> center8[label[(i - 1) * w + j] + 1]]]

\* ------------------------------------------- edge mask (lines 38 to 44)

\* cv2.cvtColor(img, COLOR_BGR2GRAY): the weighted sum of the channels in
\* 15-bit fixed point, rounded.
GrayOf(p) == (3735 * p[1] + 19235 * p[2] + 9798 * p[3] + 16384) \div 32768

CvtBGR2GRAY(im) ==
    [i \in 1..Height(im) |-> [j \in 1..Width(im) |-> GrayOf(im[i][j])]]

MedianKernel == 7

BlockSize == 15

BiasC == 5

MaxValue == 255

\* Window with the samples outside the image taken as 0 (BORDER_CONSTANT).
WindowZeroBorder(g, i, j, k) ==
    LET r == k \div 2
    IN  [n \in 1..(k * k) |->
            LET y == i + ((n - 1) \div k) - r
                x == j + ((n - 1) % k) - r
            IN  IF y \in 1..Height(g) /\ x \in 1..Width(g) THEN g[y][x] ELSE 0]

\* The samples of the k x k window about (i, j), out-of-range coordinates
\* replaced by the nearest edge coordinate (BORDER_REPLICATE), as a function of
\* 1 .. k*k.
Window(g, i, j, k) ==
    LET r == k \div 2
    IN  [n \in 1..(k * k) |->
            g[Clamp(i + ((n - 1) \div k) - r, Height(g))]
             [Clamp(j + ((n - 1) % k) - r, Width(g))]]

\* The median of the k*k samples of win: the sample with at most
\* (k*k) \div 2 samples below it and more than (k*k) \div 2 not above it.
MedianOf(win, k) ==
    LET n    == k * k
        half == n \div 2
        Below(v)    == Cardinality({m \in 1..n : win[m] < v})
        NotAbove(v) == Cardinality({m \in 1..n : win[m] <= v})
    IN  CHOOSE v \in {win[m] : m \in 1..n} : Below(v) <= half /\ NotAbove(v) > half

\* cv2.medianBlur(gray, 7)
MedianBlur(g, k) ==
    [i \in 1..Height(g) |-> [j \in 1..Width(g) |-> MedianOf(Window(g, i, j, k), k)]]

\* The mean of the BlockSize x BlockSize neighbourhood as adaptiveThreshold
\* takes it: a normalised box filter with replicated borders, rounded to 8 bits.
BoxMean(g, i, j, k) == RoundDiv(SumTo(Window(g, i, j, k), 1, k * k), k * k)

\* ThresholdAt with maxValue at the threshold too.
ThresholdAtStrict(v, mean) == IF v >= mean - BiasC THEN MaxValue ELSE 0

\* THRESH_BINARY against T = mean - C: maxValue where src > T, else 0.
ThresholdAt(v, mean) == IF v > mean - BiasC THEN MaxValue ELSE 0

\* cv2.adaptiveThreshold(gray_blur, 255, ADAPTIVE_THRESH_MEAN_C, THRESH_BINARY,
\*                       blockSize=15, C=5)
AdaptiveThreshold(g) ==
    [i \in 1..Height(g) |->
        [j \in 1..Width(g) |-> ThresholdAt(g[i][j], BoxMean(g, i, j, BlockSize))]]

\* --------------------------------------------- compositing (lines 48 to 52)

RECURSIVE BitAnd(_, _)
\* a & b on non-negative integers
BitAnd(a, b) ==
    IF a = 0 \/ b = 0 THEN 0
    ELSE (a % 2) * (b % 2) + 2 * BitAnd(a \div 2, b \div 2)

\* MaskedAnd without the mask.
MaskedAndUnmasked(p, q, m) == [ch \in 1..3 |-> BitAnd(p[ch], q[ch])]

\* One pixel of cv2.bitwise_and(src1, src2, mask=mask): the destination is
\* allocated zeroed and written only where the mask is non-zero.
MaskedAnd(p, q, m) ==
    IF m # 0 THEN [ch \in 1..3 |-> BitAnd(p[ch], q[ch])] ELSE <<0, 0, 0>>

BitwiseAnd(src1, src2, mask) ==
    [i \in 1..Height(src1) |->
        [j \in 1..Width(src1) |-> MaskedAnd(src1[i][j], src2[i][j], mask[i][j])]]

\* cv2.cvtColor(im, COLOR_BGR2RGB)
CvtBGR2RGB(im) ==
    [i \in 1..Height(im) |->
        [j \in 1..Width(im) |-> <<im[i][j][3], im[i][j][2], im[i][j][1]>>]]

\* ------------------------------------------------------------- the calls

\* Threads that call cartoonize. OpenCV keeps one default generator per thread.
Threads == {1, 2}

\* Defaults of cartoonize's parameters (line 5).
DefaultK == 5

DefaultMaxDim == 800

DefaultAttempts == 10

DefaultSeed == 42

\* Bounds of the inputs.
MaxPixels == 4

MaxK == 2

MaxCalls == 3

ColA == <<10, 10, 10>>

ColB == <<250, 250, 250>>

ColC == <<30, 20, 20>>

ColD == <<130, 130, 130>>

Palette == {ColA, ColB, ColC}

Shapes == {hw \in (1..MaxPixels) \X (1..MaxPixels) : hw[1] * hw[2] <= MaxPixels}

\* The decoded images: every image of at most MaxPixels pixels over Palette.
Images == UNION {[1..hw[1] -> [1..hw[2] -> Palette]] : hw \in Shapes}

\* The 4x4 image of two flat halves (section 8 of the specification).
StepImage == [i \in 1..4 |-> <<ColA, ColA, ColB, ColB>>]

StepArgs ==
    [image |-> StepImage, K |-> 2, max_dim |-> DefaultMaxDim,
     attempts |-> DefaultAttempts, random_seed |-> DefaultSeed]

\* The arguments of one call; image is what cv2.imread(image_path) yields,
\* NoImage for a missing or undecodable file.
ArgsWide ==
    {[image |-> im, K |-> k, max_dim |-> md, attempts |-> a,
      random_seed |-> DefaultSeed] :
        im \in Images \cup {NoImage}, k \in 0..MaxK,
        md \in {1, 2, DefaultMaxDim}, a \in {2}}
    \cup {StepArgs}

\* The calls of the runs that repeat and interleave calls: two images of three
\* and four distinct colours, two seeds.
ArgsSeeded ==
    {[image |-> im, K |-> 2, max_dim |-> DefaultMaxDim, attempts |-> 1,
      random_seed |-> sd] :
        im \in {<< <<ColA, ColD, ColB>> >>, << <<ColA, ColC>>, <<ColD, ColB>> >>},
        sd \in {DefaultSeed, 7}}

VARIABLES
    pc,          \* per thread: the statement the call is at, "idle" between calls
    todo,        \* per thread: the calls it still has to make
    arg,         \* per thread: the arguments of the current call
    rng,         \* per thread: the state of OpenCV's default generator
    stages,      \* per thread: the library calls the current call has made
    img, passes, smoothed, label, center, center8, quantized,
    gray, gray_blur, edges, cartoon_bgr,      \* per thread: the locals
    calls        \* per thread: the calls completed, with what each gave

locals == <<img, passes, smoothed, label, center, center8, quantized,
            gray, gray_blur, edges, cartoon_bgr>>

vars == <<pc, todo, arg, rng, stages, locals, calls>>

NoArgs ==
    [image |-> NoImage, K |-> DefaultK, max_dim |-> DefaultMaxDim,
     attempts |-> DefaultAttempts, random_seed |-> DefaultSeed]

InitWith(work) ==
    /\ todo = work
    /\ pc = [t \in Threads |-> "idle"]
    /\ arg = [t \in Threads |-> NoArgs]
    /\ rng = [t \in Threads |-> RngDefault]
    /\ stages = [t \in Threads |-> << >>]
    /\ img = [t \in Threads |-> NoImage]
    /\ passes = [t \in Threads |-> 0]
    /\ smoothed = [t \in Threads |-> NoImage]
    /\ label = [t \in Threads |-> << >>]
    /\ center = [t \in Threads |-> << >>]
    /\ center8 = [t \in Threads |-> << >>]
    /\ quantized = [t \in Threads |-> NoImage]
    /\ gray = [t \in Threads |-> NoImage]
    /\ gray_blur = [t \in Threads |-> NoImage]
    /\ edges = [t \in Threads |-> NoImage]
    /\ cartoon_bgr = [t \in Threads |-> NoImage]
    /\ calls = [t \in Threads |-> << >>]

\* One thread makes one call, with any arguments.
Init == \E a \in ArgsWide : InitWith([t \in Threads |-> IF t = 1 THEN <<a>> ELSE << >>])

\* One thread makes MaxCalls calls, one after the other.
InitSeq ==
    \E w \in [1..MaxCalls -> ArgsSeeded] :
        InitWith([t \in Threads |-> IF t = 1 THEN w ELSE << >>])

\* Every thread makes one call; their statements interleave.
InitConc == \E w \in [Threads -> ArgsSeeded] : InitWith([t \in Threads |-> <<w[t]>>])

\* The call of thread t ends: it returns the pair, or raises.
Finish(t, outcome, original_rgb, cartoon_rgb) ==
    /\ calls' = [calls EXCEPT ![t] = Append(@,
                    [arg |-> arg[t], outcome |-> outcome,
                     original_rgb |-> original_rgb, cartoon_rgb |-> cartoon_rgb,
                     center |-> center[t], stages |-> stages'[t]])]
    /\ pc' = [pc EXCEPT ![t] = "idle"]

Ran(t, stage) == stages' = [stages EXCEPT ![t] = Append(@, stage)]

\* cartoonize(image_path, K, max_dim, attempts, random_seed) is entered: a fresh
\* frame, no local bound.
Call(t) ==
    /\ pc[t] = "idle"
    /\ todo[t] # << >>
    /\ arg' = [arg EXCEPT ![t] = Head(todo[t])]
    /\ todo' = [todo EXCEPT ![t] = Tail(@)]
    /\ pc' = [pc EXCEPT ![t] = "imread"]
    /\ stages' = [stages EXCEPT ![t] = << >>]
    /\ img' = [img EXCEPT ![t] = NoImage]
    /\ passes' = [passes EXCEPT ![t] = 0]
    /\ smoothed' = [smoothed EXCEPT ![t] = NoImage]
    /\ label' = [label EXCEPT ![t] = << >>]
    /\ center' = [center EXCEPT ![t] = << >>]
    /\ center8' = [center8 EXCEPT ![t] = << >>]
    /\ quantized' = [quantized EXCEPT ![t] = NoImage]
    /\ gray' = [gray EXCEPT ![t] = NoImage]
    /\ gray_blur' = [gray_blur EXCEPT ![t] = NoImage]
    /\ edges' = [edges EXCEPT ![t] = NoImage]
    /\ cartoon_bgr' = [cartoon_bgr EXCEPT ![t] = NoImage]
    /\ UNCHANGED <<rng, calls>>

\* Load going on with a blank image when the file cannot be read.
LoadBlank(t) ==
    /\ pc[t] = "imread"
    /\ Ran(t, "imread")
    /\ img' = [img EXCEPT ![t] =
                  IF arg[t].image = NoImage THEN << << <<0, 0, 0>> >> >> ELSE arg[t].image]
    /\ pc' = [pc EXCEPT ![t] = "resize"]
    /\ UNCHANGED <<todo, arg, rng, passes, smoothed, label, center, center8,
                   quantized, gray, gray_blur, edges, cartoon_bgr, calls>>

\* Lines 7 to 9: img = cv2.imread(image_path); None raises FileNotFoundError.
Load(t) ==
    /\ pc[t] = "imread"
    /\ Ran(t, "imread")
    /\ img' = [img EXCEPT ![t] = arg[t].image]
    /\ IF arg[t].image = NoImage
       THEN Finish(t, "FileNotFoundError", NoImage, NoImage)
       ELSE /\ pc' = [pc EXCEPT ![t] = "resize"]
            /\ UNCHANGED calls
    /\ UNCHANGED <<todo, arg, rng, passes, smoothed, label, center, center8,
                   quantized, gray, gray_blur, edges, cartoon_bgr>>

\* Lines 11 to 14: an image whose longer side exceeds max_dim is resized;
\* cv2.resize raises cv2.error for a target size with a zero side. Line 19:
\* smoothed = img.copy().
Resize(t) ==
    /\ pc[t] = "resize"
    /\ LET h == Height(img[t])
           w == Width(img[t])
           dsize == ResizeDims(h, w, arg[t].max_dim)
       IN  IF Max(h, w) > arg[t].max_dim
           THEN /\ Ran(t, "resize")
                /\ IF dsize[1] <= 0 \/ dsize[2] <= 0
                   THEN /\ Finish(t, "cv2.error", NoImage, NoImage)
                        /\ UNCHANGED <<img, smoothed>>
                   ELSE /\ img' = [img EXCEPT ![t] = ResizeArea(@, dsize[1], dsize[2])]
                        /\ smoothed' = [smoothed EXCEPT ![t] = img'[t]]
                        /\ pc' = [pc EXCEPT ![t] = "smooth"]
                        /\ UNCHANGED calls
           ELSE /\ smoothed' = [smoothed EXCEPT ![t] = img[t]]
                /\ pc' = [pc EXCEPT ![t] = "smooth"]
                /\ UNCHANGED <<img, stages, calls>>
    /\ UNCHANGED <<todo, arg, rng, passes, label, center, center8, quantized,
                   gray, gray_blur, edges, cartoon_bgr>>

\* Lines 20 and 21: one pass of the loop for _ in range(3).
SmoothPass(t) ==
    /\ pc[t] = "smooth"
    /\ passes[t] < SmoothPasses
    /\ Ran(t, "bilateralFilter")
    /\ smoothed' = [smoothed EXCEPT ![t] = BilateralFilter(@)]
    /\ passes' = [passes EXCEPT ![t] = @ + 1]
    /\ pc' = [pc EXCEPT ![t] = IF passes'[t] = SmoothPasses THEN "seed" ELSE "smooth"]
    /\ UNCHANGED <<todo, arg, rng, img, label, center, center8, quantized,
                   gray, gray_blur, edges, cartoon_bgr, calls>>

\* SetRNGSeed left out: the generator goes on from where it is.
SetRNGSeedSkipped(t) ==
    /\ pc[t] = "seed"
    /\ Ran(t, "setRNGSeed")
    /\ pc' = [pc EXCEPT ![t] = "kmeans"]
    /\ UNCHANGED <<todo, arg, rng, locals, calls>>

\* SetRNGSeed on one generator that all threads share.
SetRNGSeedShared(t) ==
    /\ pc[t] = "seed"
    /\ Ran(t, "setRNGSeed")
    /\ rng' = [u \in Threads |-> SeedState(arg[t].random_seed)]
    /\ pc' = [pc EXCEPT ![t] = "kmeans"]
    /\ UNCHANGED <<todo, arg, locals, calls>>

\* Line 31: cv2.setRNGSeed(random_seed) sets the calling thread's generator.
SetRNGSeed(t) ==
    /\ pc[t] = "seed"
    /\ Ran(t, "setRNGSeed")
    /\ rng' = [rng EXCEPT ![t] = SeedState(arg[t].random_seed)]
    /\ pc' = [pc EXCEPT ![t] = "kmeans"]
    /\ UNCHANGED <<todo, arg, locals, calls>>

\* Cluster with K brought into 1 .. N instead of rejected.
ClusterClamped(t) ==
    /\ pc[t] = "kmeans"
    /\ Ran(t, "kmeans")
    /\ \E km \in {KMeans(Flatten(smoothed[t]),
                          Max(1, Min(arg[t].K, Len(Flatten(smoothed[t])))),
                          arg[t].attempts, rng[t])} :
           /\ label' = [label EXCEPT ![t] = km.label]
           /\ center' = [center EXCEPT ![t] = km.center]
           /\ rng' = [rng EXCEPT ![t] = km.s]
    /\ pc' = [pc EXCEPT ![t] = "quantize"]
    /\ UNCHANGED <<todo, arg, img, passes, smoothed, center8, quantized,
                   gray, gray_blur, edges, cartoon_bgr, calls>>

\* Lines 25 and 32: Z is the smoothed pixels; cv2.kmeans raises cv2.error
\* unless 0 < K <= N, else clusters with the calling thread's generator.
Cluster(t) ==
    /\ pc[t] = "kmeans"
    /\ Ran(t, "kmeans")
    /\ LET Z == Flatten(smoothed[t])
       IN  IF ~KMeansAccepts(Z, arg[t].K)
           THEN /\ Finish(t, "cv2.error", NoImage, NoImage)
                /\ UNCHANGED <<rng, label, center>>
           ELSE \E km \in {KMeans(Z, arg[t].K, arg[t].attempts, rng[t])} :
                    /\ label' = [label EXCEPT ![t] = km.label]
                    /\ center' = [center EXCEPT ![t] = km.center]
                    /\ rng' = [rng EXCEPT ![t] = km.s]
                    /\ pc' = [pc EXCEPT ![t] = "quantize"]
                    /\ UNCHANGED calls
    /\ UNCHANGED <<todo, arg, img, passes, smoothed, center8, quantized,
                   gray, gray_blur, edges, cartoon_bgr>>

\* Lines 34 and 35: center = np.uint8(center);
\* quantized = center[label.flatten()].reshape(img.shape).
Quantize(t) ==
    /\ pc[t] = "quantize"
    /\ Ran(t, "uint8")
    /\ center8' = [center8 EXCEPT ![t] = Uint8(center[t])]
    /\ quantized' = [quantized EXCEPT ![t] =
                        Lookup(center8'[t], label[t], Height(img[t]), Width(img[t]))]
    /\ pc' = [pc EXCEPT ![t] = "gray"]
    /\ UNCHANGED <<todo, arg, rng, img, passes, smoothed, label, center,
                   gray, gray_blur, edges, cartoon_bgr, calls>>

\* Line 38
Gray(t) ==
    /\ pc[t] = "gray"
    /\ Ran(t, "cvtColor")
    /\ gray' = [gray EXCEPT ![t] = CvtBGR2GRAY(img[t])]
    /\ pc' = [pc EXCEPT ![t] = "blur"]
    /\ UNCHANGED <<todo, arg, rng, img, passes, smoothed, label, center, center8,
                   quantized, gray_blur, edges, cartoon_bgr, calls>>

\* Line 39
Blur(t) ==
    /\ pc[t] = "blur"
    /\ Ran(t, "medianBlur")
    /\ gray_blur' = [gray_blur EXCEPT ![t] = MedianBlur(gray[t], MedianKernel)]
    /\ pc' = [pc EXCEPT ![t] = "threshold"]
    /\ UNCHANGED <<todo, arg, rng, img, passes, smoothed, label, center, center8,
                   quantized, gray, edges, cartoon_bgr, calls>>

\* Lines 40 to 44
Threshold(t) ==
    /\ pc[t] = "threshold"
    /\ Ran(t, "adaptiveThreshold")
    /\ edges' = [edges EXCEPT ![t] = AdaptiveThreshold(gray_blur[t])]
    /\ pc' = [pc EXCEPT ![t] = "combine"]
    /\ UNCHANGED <<todo, arg, rng, img, passes, smoothed, label, center, center8,
                   quantized, gray, gray_blur, cartoon_bgr, calls>>

\* Line 48
Combine(t) ==
    /\ pc[t] = "combine"
    /\ Ran(t, "bitwise_and")
    /\ cartoon_bgr' = [cartoon_bgr EXCEPT ![t] =
                          BitwiseAnd(quantized[t], quantized[t], edges[t])]
    /\ pc' = [pc EXCEPT ![t] = "return"]
    /\ UNCHANGED <<todo, arg, rng, img, passes, smoothed, label, center, center8,
                   quantized, gray, gray_blur, edges, calls>>

\* Lines 51 to 54: both images are converted to RGB and returned.
Return(t) ==
    /\ pc[t] = "return"
    /\ UNCHANGED stages
    /\ Finish(t, "returned", CvtBGR2RGB(img[t]), CvtBGR2RGB(cartoon_bgr[t]))
    /\ UNCHANGED <<todo, arg, rng, locals>>

Next ==
    \E t \in Threads :
        \/ Call(t)
        \/ Load(t)
        \/ Resize(t)
        \/ SmoothPass(t)
        \/ SetRNGSeed(t)
        \/ Cluster(t)
        \/ Quantize(t)
        \/ Gray(t)
        \/ Blur(t)
        \/ Threshold(t)
        \/ Combine(t)
        \/ Return(t)

Spec == Init /\ [][Next]_vars

SpecSeq == InitSeq /\ [][Next]_vars

SpecConc == InitConc /\ [][Next]_vars

\* ------------------------------------------------------------ the claims

Last(t) == calls[t][Len(calls[t])]

\* Thread t's latest call has ended and returned its pair; the locals are
\* still those of that call.
Returned(t) == pc[t] = "idle" /\ calls[t] # << >> /\ Last(t).outcome = "returned"

Pixels(im) == {<<i, j>> : i \in 1..Height(im), j \in 1..Width(im)}

Colors(im) == {im[p[1]][p[2]] : p \in Pixels(im)}

\* C1: in the cartoon a call returns, a pixel the mask marks as line (0) is 0
\* in all three channels and a pixel it marks as background (255) is the
\* quantized pixel, its channels in RGB order.
C1_CompositorCorrect ==
    \A t \in Threads :
        Returned(t) =>
            \A p \in Pixels(edges[t]) :
                LET m   == edges[t][p[1]][p[2]]
                    q   == quantized[t][p[1]][p[2]]
                    out == Last(t).cartoon_rgb[p[1]][p[2]]
                IN  /\ m = 0 => out = <<0, 0, 0>>
                    /\ m = MaxValue => out = <<q[3], q[2], q[1]>>

\* A returned cartoon with a line pixel over a non-black quantized colour and a
\* background pixel whose quantized colour is not grey.
C1_Witness ==
    \E t \in Threads :
        /\ Returned(t)
        /\ \E p \in Pixels(edges[t]) :
               edges[t][p[1]][p[2]] = 0 /\ quantized[t][p[1]][p[2]] # <<0, 0, 0>>
        /\ \E p \in Pixels(edges[t]) :
               /\ edges[t][p[1]][p[2]] = MaxValue
               /\ quantized[t][p[1]][p[2]][1] # quantized[t][p[1]][p[2]][3]

\* C2: two calls a thread makes one after the other with the same image, K,
\* attempts and seed end the same way, with the same images and the same
\* centres, whatever calls came before or between them.
C2_Deterministic ==
    \A t \in Threads :
        \A i \in 1..Len(calls[t]) :
            \A j \in 1..Len(calls[t]) :
                calls[t][i].arg = calls[t][j].arg =>
                    /\ calls[t][i].outcome = calls[t][j].outcome
                    /\ calls[t][i].cartoon_rgb = calls[t][j].cartoon_rgb
                    /\ calls[t][i].original_rgb = calls[t][j].original_rgb
                    /\ calls[t][i].center = calls[t][j].center

\* Three calls: the first and the third alike, the second on the same image
\* with another seed and another cartoon.
C2_Witness ==
    \E t \in Threads :
        /\ Len(calls[t]) >= 3
        /\ calls[t][1].arg = calls[t][3].arg
        /\ calls[t][2].arg.image = calls[t][1].arg.image
        /\ calls[t][2].arg.random_seed # calls[t][1].arg.random_seed
        /\ calls[t][2].cartoon_rgb # calls[t][1].cartoon_rgb
        /\ calls[t][3].outcome = "returned"

\* What a call with arguments a, of an image within max_dim and a K the
\* quantizer accepts, gives when nothing else runs.
RunAlone(a) ==
    LET h == Height(a.image)
        w == Width(a.image)
        Mask == With(With(CvtBGR2GRAY(a.image), LAMBDA g : MedianBlur(g, MedianKernel)),
                     AdaptiveThreshold)
        Cartoon(q) == With(Mask, LAMBDA m : CvtBGR2RGB(BitwiseAnd(q, q, m)))
        Result(km) ==
            [original_rgb |-> CvtBGR2RGB(a.image),
             cartoon_rgb |-> With(Lookup(Uint8(km.center), km.label, h, w), Cartoon),
             center |-> km.center]
    IN  With(With(Smooth(a.image, SmoothPasses),
                  LAMBDA sm : KMeans(Flatten(sm), a.K, a.attempts,
                                     SeedState(a.random_seed))),
             Result)

\* C3: with the calls of two threads interleaved in any order, every call
\* returns what it returns when run alone.
C3_Reentrant ==
    \A t \in Threads :
        \A i \in 1..Len(calls[t]) :
            LET c == calls[t][i]
            IN  /\ c.outcome = "returned"
                /\ [original_rgb |-> c.original_rgb, cartoon_rgb |-> c.cartoon_rgb,
                    center |-> c.center] = RunAlone(c.arg)

\* One thread has returned from a call on the image the other thread, seeded
\* otherwise, is about to cluster.
C3_Witness ==
    \E t \in Threads :
        \E u \in Threads \ {t} :
            /\ Returned(t)
            /\ pc[u] = "kmeans"
            /\ arg[u].image = Last(t).arg.image
            /\ arg[u].random_seed # Last(t).arg.random_seed
            /\ rng[u] # rng[t]

\* C4: once a call has quantized, the quantized image holds at most K colours
\* and every label is in 0 .. K-1.
C4_QuantizationBound ==
    \A t \in Threads :
        /\ label[t] # << >> =>
               \A i \in 1..Len(label[t]) : label[t][i] \in 0..(arg[t].K - 1)
        /\ quantized[t] # NoImage =>
               /\ Cardinality(Colors(quantized[t])) <= arg[t].K
               /\ Shape(quantized[t]) = Shape(img[t])

\* A quantized image of exactly K = 2 colours for a smoothed image of more.
C4_Witness ==
    \E t \in Threads :
        /\ quantized[t] # NoImage
        /\ arg[t].K = 2
        /\ Cardinality(Colors(quantized[t])) = 2
        /\ Cardinality(Colors(smoothed[t])) > 2

\* C5: a call whose image cannot be read raises FileNotFoundError with imread
\* the only library call made, binds no local of the pipeline, leaves the
\* generator alone and returns no image.
C5_InputError ==
    \A t \in Threads :
        /\ (arg[t].image = NoImage /\ pc[t] # "idle") => pc[t] = "imread"
        /\ \A i \in 1..Len(calls[t]) :
               calls[t][i].arg.image = NoImage =>
                   /\ calls[t][i].outcome = "FileNotFoundError"
                   /\ calls[t][i].stages = <<"imread">>
                   /\ calls[t][i].original_rgb = NoImage
                   /\ calls[t][i].cartoon_rgb = NoImage
        /\ (pc[t] = "idle" /\ calls[t] # << >> /\ Last(t).arg.image = NoImage) =>
               /\ smoothed[t] = NoImage /\ passes[t] = 0 /\ label[t] = << >>
               /\ quantized[t] = NoImage /\ edges[t] = NoImage
               /\ cartoon_bgr[t] = NoImage
               /\ Len(calls[t]) = 1 => rng[t] = RngDefault

C5_Witness ==
    \E t \in Threads :
        pc[t] = "idle" /\ calls[t] # << >> /\ Last(t).outcome = "FileNotFoundError"

\* The shape the image of a call with arguments a has after lines 11 to 14,
\* <<0, 0>> when cv2.resize rejects the target size.
TargetShape(a) ==
    LET h == Height(a.image)
        w == Width(a.image)
        d == ResizeDims(h, w, a.max_dim)
    IN  IF Max(h, w) <= a.max_dim THEN <<h, w>>
        ELSE IF d[1] <= 0 \/ d[2] <= 0 THEN <<0, 0>>
        ELSE <<d[2], d[1]>>

\* A call whose image is read and resized but whose K is below 1 or above the
\* number of pixels.
InvalidK(a) ==
    /\ a.image # NoImage
    /\ TargetShape(a) # <<0, 0>>
    /\ (a.K < 1 \/ a.K > TargetShape(a)[1] * TargetShape(a)[2])

InSeq(x, sq) == \E i \in 1..Len(sq) : sq[i] = x

C7_LineIffBelow ==
    \A t \in Threads :
        edges[t] # NoImage =>
            \A p \in Pixels(edges[t]) :
                LET v == gray_blur[t][p[1]][p[2]]
                    T == BoxMean(gray_blur[t], p[1], p[2], BlockSize) - BiasC
                IN  /\ edges[t][p[1]][p[2]] = 0 <=> v < T
                    /\ edges[t][p[1]][p[2]] = MaxValue <=> v >= T

\* C7, amended: a pixel is line (0) exactly if its luminance is at most the
\* local mean (of the 15 x 15 neighbourhood, rounded to 8 bits) minus the bias,
\* and background (255) otherwise: a pixel at the threshold is line.
C7_LineIffNotAbove ==
    \A t \in Threads :
        edges[t] # NoImage =>
            /\ Shape(edges[t]) = Shape(gray_blur[t])
            /\ \A p \in Pixels(edges[t]) :
                   LET v == gray_blur[t][p[1]][p[2]]
                       T == BoxMean(gray_blur[t], p[1], p[2], BlockSize) - BiasC
                   IN  /\ edges[t][p[1]][p[2]] = 0 <=> v <= T
                       /\ edges[t][p[1]][p[2]] = MaxValue <=> v > T

\* A mask with a pixel exactly at its threshold, marked line, and a
\* background pixel.
C7_Witness ==
    \E t \in Threads :
        /\ edges[t] # NoImage
        /\ \E p \in Pixels(edges[t]) :
               /\ gray_blur[t][p[1]][p[2]]
                      = BoxMean(gray_blur[t], p[1], p[2], BlockSize) - BiasC
               /\ edges[t][p[1]][p[2]] = 0
        /\ \E p \in Pixels(edges[t]) : edges[t][p[1]][p[2]] = MaxValue

\* The centre of the cluster pixel p of thread t is labelled with.
CenterOf(t, p) == center[t][label[t][(p[1] - 1) * Width(img[t]) + p[2]] + 1]

\* C8 as claimed: every quantized sample is the centre's channel rounded to
\* the nearest integer.
C8_Rounded ==
    \A t \in Threads :
        quantized[t] # NoImage =>
            \A p \in Pixels(quantized[t]) :
                \A ch \in 1..3 :
                    quantized[t][p[1]][p[2]][ch]
                        = (CenterOf(t, p)[ch] + CenterScale \div 2) \div CenterScale

\* C8, amended: every quantized sample is the centre's channel with its
\* fraction dropped (a centre channel of 127.6 yields 127).
C8_Truncated ==
    \A t \in Threads :
        quantized[t] # NoImage =>
            \A p \in Pixels(quantized[t]) :
                \A ch \in 1..3 :
                    quantized[t][p[1]][p[2]][ch] = CenterOf(t, p)[ch] \div CenterScale

\* A quantized pixel whose centre has a channel with a fraction of a half or more.
C8_Witness ==
    \E t \in Threads :
        /\ quantized[t] # NoImage
        /\ \E p \in Pixels(quantized[t]) :
               \E ch \in 1..3 : CenterOf(t, p)[ch] % CenterScale >= CenterScale \div 2

\* Thread t runs the call on the two-halves image and has thresholded.
StepMasked(t) == arg[t] = StepArgs /\ edges[t] # NoImage

\* C9 as claimed: on the two-halves image the mask is line only next to the
\* boundary (columns 2 and 3 of 1 .. 4), the outer columns are background, and
\* the cartoon shows each half in its quantized colour but for a black seam.
C9_SeamOnly ==
    \A t \in Threads :
        /\ StepMasked(t) =>
               /\ \A p \in Pixels(edges[t]) : edges[t][p[1]][p[2]] = 0 => p[2] \in {2, 3}
               /\ \A i \in 1..4 : edges[t][i][1] = MaxValue /\ edges[t][i][4] = MaxValue
        /\ (Returned(t) /\ arg[t] = StepArgs) =>
               \A i \in 1..4 :
                   /\ Last(t).cartoon_rgb[i][1] = ColA
                   /\ Last(t).cartoon_rgb[i][4] = ColB

\* C9, amended: on the two-halves image the mask marks every pixel of the dark
\* half (columns 1 and 2) as line and every pixel of the light half as
\* background; the two centres are the two colours, and the cartoon is black
\* in the dark half and the light colour in the light half.
C9_DarkHalfIsLine ==
    \A t \in Threads :
        /\ StepMasked(t) =>
               \A p \in Pixels(edges[t]) :
                   edges[t][p[1]][p[2]] = (IF p[2] <= 2 THEN 0 ELSE MaxValue)
        /\ (arg[t] = StepArgs /\ quantized[t] # NoImage) =>
               /\ quantized[t] = StepImage
               /\ {center8[t][k] : k \in 1..2} = {ColA, ColB}
        /\ (Returned(t) /\ arg[t] = StepArgs) =>
               /\ Shape(Last(t).cartoon_rgb) = <<4, 4>>
               /\ \A p \in Pixels(StepImage) :
                      Last(t).cartoon_rgb[p[1]][p[2]]
                          = (IF p[2] <= 2 THEN <<0, 0, 0>> ELSE ColB)

C9_Witness == \E t \in Threads : Returned(t) /\ arg[t] = StepArgs

\* C10 as claimed: a call on a decoded image (here with K = 1, which every
\* image admits) returns two images of one shape: the image's own if its
\* longer side is within max_dim, else one scaled down with the longer side at
\* most max_dim and no side below 1.
C10_ResizedShape ==
    \A t \in Threads :
        \A i \in 1..Len(calls[t]) :
            LET c == calls[t][i]
                h == Height(c.arg.image)
                w == Width(c.arg.image)
                s == Shape(c.original_rgb)
            IN  (c.arg.image # NoImage /\ c.arg.K = 1) =>
                    /\ c.outcome = "returned"
                    /\ Shape(c.cartoon_rgb) = s
                    /\ Max(h, w) <= c.arg.max_dim => s = <<h, w>>
                    /\ Max(h, w) > c.arg.max_dim =>
                           /\ Max(s[1], s[2]) <= c.arg.max_dim
                           /\ s[1] >= 1 /\ s[2] >= 1

====
